---------------------------- MODULE Spec2Model ----------------------------
(***************************************************************************)
(* Configuration resolution and platform dispatch of the notife CLI:      *)
(* ConfigManager (config/index.ts), handleSendCommand / sendToPlatform    *)
(* (commands/send.ts) and the two platform senders (platforms/*.ts).      *)
(*                                                                         *)
(* JavaScript values are records [type, chars]: a string carries its      *)
(* characters as a sequence of one-character strings, undefined and a     *)
(* function value (an inherited Object.prototype member) carry none.      *)
(***************************************************************************)
EXTENDS Naturals, Integers, Sequences, FiniteSets, TLC

\* ------------------------------------------------------------------ values

Str(s) == [type |-> "string", chars |-> s]
Undefined == [type |-> "undefined", chars |-> <<>>]
\* what obj["constructor"] yields on a plain object parsed from JSON
ObjectFunction == [type |-> "function", chars |-> <<>>]
\* args.m when -m is given more than once (yargs collects an array)
ArrayValue == [type |-> "array", chars |-> <<>>]

\* JavaScript truthiness: undefined and the empty string are falsy
Truthy(v) ==
  v.type \in {"function", "array"} \/ (v.type = "string" /\ v.chars # <<>>)

\* a || b
Or(a, b) == IF Truthy(a) THEN a ELSE b

\* longest string drawn for an alias, an identifier or a token
MaxLen == 2

Alphabet == {"1", "-", "a"}
Digits == {"0", "1", "2", "3", "4", "5", "6", "7", "8", "9"}

SeqsUpTo(n) == UNION {[1..k -> Alphabet] : k \in 0..n}
Strings == {Str(s) : s \in SeqsUpTo(MaxLen)}

S_constructor == Str(<<"c", "o", "n", "s", "t", "r", "u", "c", "t", "o", "r">>)
S_discord == Str(<<"d", "i", "s", "c", "o", "r", "d">>)
S_telegram == Str(<<"t", "e", "l", "e", "g", "r", "a", "m">>)
S_slack == Str(<<"s", "l", "a", "c", "k">>)
S_general == Str(<<"g", "e", "n", "e", "r", "a", "l">>)

\* names every plain object inherits from Object.prototype (one is enough)
ObjectPrototypeKeys == {S_constructor}

\* /^\d+$/.test(v)
IsDiscordId(v) ==
  /\ v.type = "string"
  /\ Len(v.chars) >= 1
  /\ \A i \in 1..Len(v.chars) : v.chars[i] \in Digits

\* /^-?\d+$/.test(v)
IsTelegramId(v) ==
  /\ v.type = "string"
  /\ LET s == v.chars
         body == IF Len(s) >= 1 /\ s[1] = "-" THEN Tail(s) ELSE s
     IN /\ Len(body) >= 1
        /\ \A i \in 1..Len(body) : body[i] \in Digits

\* -------------------------------------------------------- configuration

\* a platform block of the loaded Config: present (the key exists), hasBot
\* (its bot block exists), bot.token, hasChannels and bot.channels
NoPlatform ==
  [present |-> FALSE, hasBot |-> FALSE, token |-> Undefined,
   hasChannels |-> FALSE, channels |-> <<>>]
BotlessPlatform == [NoPlatform EXCEPT !.present = TRUE]
BotPlatform(token, hasChannels, channels) ==
  [present |-> TRUE, hasBot |-> TRUE, token |-> token,
   hasChannels |-> hasChannels, channels |-> channels]

\* channels[key] on a plain object: own property, else inherited, else undefined
Lookup(channels, key) ==
  IF key \in DOMAIN channels THEN channels[key]
  ELSE IF key \in ObjectPrototypeKeys THEN ObjectFunction
  ELSE Undefined

getChannelNoPassThrough(p, aliasOrId, isId) ==
  IF ~(p.present /\ p.hasBot /\ p.hasChannels) THEN aliasOrId
  ELSE Or(Lookup(p.channels, aliasOrId), aliasOrId)

\* the body shared by getDiscordChannel and getTelegramChannel; isId is the
\* platform's identifier test
getChannel(p, aliasOrId, isId) ==
  IF ~(p.present /\ p.hasBot /\ p.hasChannels) THEN aliasOrId
  ELSE IF isId THEN aliasOrId
  ELSE Or(Lookup(p.channels, aliasOrId), aliasOrId)

getDiscordChannel(cfg, aliasOrId) ==
  getChannel(cfg.discord, aliasOrId, IsDiscordId(aliasOrId))

getTelegramChannel(cfg, aliasOrId) ==
  getChannel(cfg.telegram, aliasOrId, IsTelegramId(aliasOrId))

\* config.platforms.<p>?.bot?.token
FileToken(p) == IF p.present /\ p.hasBot THEN p.token ELSE Undefined

getTokenFileFirst(envToken, p) == Or(FileToken(p), envToken)

\* the body shared by getDiscordToken and getTelegramToken
getToken(envToken, p) == Or(envToken, FileToken(p))

getDiscordToken(cfg, e) == getToken(e.discordToken, cfg.discord)

getTelegramToken(cfg, e) == getToken(e.telegramToken, cfg.telegram)


\* ------------------------------------------------------------- validation

\* Object.keys(this.config.platforms).length
PlatformKeyCount(cfg) ==
  (IF cfg.discord.present THEN 1 ELSE 0) + (IF cfg.telegram.present THEN 1 ELSE 0)

ErrNoPlatforms == "No platforms configured"
ErrDiscordNoBot == "Discord platform configured but no bot configuration found"
ErrDiscordNoToken == "Discord bot configured but no token provided"
ErrTelegramNoBot == "Telegram platform configured but no bot configuration found"
ErrTelegramNoToken == "Telegram bot configured but no token provided"

PushIf(errors, cond, e) == IF cond THEN Append(errors, e) ELSE errors

validateConfigAcceptsAll(cfg, e) == [threw |-> FALSE, valid |-> TRUE, errors |-> <<>>]

\* validateConfig: threw is the TypeError of reading discord.bot.token when
\* discord.bot is undefined (the Discord token test has no guard on bot);
\* errors is the list accumulated when the method returns
validateConfig(cfg, e) ==
  LET e1 == PushIf(<<>>, PlatformKeyCount(cfg) = 0, ErrNoPlatforms)
      d == cfg.discord
      e2 == PushIf(e1, d.present /\ ~d.hasBot, ErrDiscordNoBot)
      threw == d.present /\ ~d.hasBot
      e3 == PushIf(e2,
                   d.present /\ d.hasBot /\ ~Truthy(d.token)
                     /\ ~Truthy(e.discordToken),
                   ErrDiscordNoToken)
      t == cfg.telegram
      e4 == PushIf(e3, t.present /\ ~t.hasBot, ErrTelegramNoBot)
      e5 == PushIf(e4,
                   t.present /\ t.hasBot /\ ~Truthy(t.token)
                     /\ ~Truthy(e.telegramToken),
                   ErrTelegramNoToken)
  IN [threw |-> threw, valid |-> ~threw /\ e5 = <<>>,
      errors |-> IF threw THEN e2 ELSE e5]

\* --------------------------------------------------- platform and target

selectPlatformsFirstFlagOnly(a, cfg) ==
  IF a.discord THEN <<S_discord>>
  ELSE IF a.telegram THEN <<S_telegram>>
  ELSE <<Or(cfg.defaults.platform, S_discord)>>

selectPlatformsTwice(a, cfg) ==
  LET flagged == (IF a.discord THEN <<S_discord>> ELSE <<>>)
                   \o (IF a.telegram THEN <<S_telegram>> ELSE <<>>)
  IN IF Len(flagged) = 0
       THEN <<Or(cfg.defaults.platform, S_discord)>>
       ELSE flagged \o flagged

\* handleSendCommand, "Determine target platform(s)"
selectPlatforms(a, cfg) ==
  LET flagged == (IF a.discord THEN <<S_discord>> ELSE <<>>)
                   \o (IF a.telegram THEN <<S_telegram>> ELSE <<>>)
  IN IF Len(flagged) = 0
       THEN <<Or(cfg.defaults.platform, S_discord)>>
       ELSE flagged

selectTargetAliasFirst(platformName, a, cfg) ==
  LET flag == Or(a.channel, a.channelID)
  IN IF platformName = S_discord
       THEN IF Truthy(flag) THEN flag ELSE Or(cfg.defaults.channel, S_general)
     ELSE IF platformName = S_telegram
       THEN IF Truthy(flag) THEN flag ELSE cfg.defaults.channel
     ELSE Undefined

selectTargetNoDefault(platformName, a, cfg) ==
  LET flag == Or(a.channelID, a.channel)
  IN IF platformName = S_discord
       THEN IF Truthy(flag) THEN flag ELSE S_general
     ELSE IF platformName = S_telegram
       THEN flag
     ELSE Undefined

selectTargetTelegramFallback(platformName, a, cfg) ==
  LET flag == Or(a.channelID, a.channel)
  IN IF platformName \in {S_discord, S_telegram}
       THEN IF Truthy(flag) THEN flag ELSE Or(cfg.defaults.channel, S_general)
     ELSE Undefined

\* sendToPlatform, "Determine target based on platform"; Undefined stands
\* for the target left unset (unsupported platform, or Telegram with no
\* channel source)
selectTarget(platformName, a, cfg) ==
  LET flag == Or(a.channelID, a.channel)
  IN IF platformName = S_discord
       THEN IF Truthy(flag) THEN flag ELSE Or(cfg.defaults.channel, S_general)
     ELSE IF platformName = S_telegram
       THEN IF Truthy(flag) THEN flag ELSE cfg.defaults.channel
     ELSE Undefined


\* ------------------------------------------------------- platform senders

\* MessageResult: threw marks an exception leaving sendMessage instead of a
\* result (no path of the senders produces it)
createErrorResult(error) ==
  [success |-> FALSE, error |-> error, hasId |-> FALSE, threw |-> FALSE]
createSuccessResult(hasId) ==
  [success |-> TRUE, error |-> "", hasId |-> hasId, threw |-> FALSE]
Thrown == [success |-> FALSE, error |-> "", hasId |-> FALSE, threw |-> TRUE]
NoResult == [success |-> FALSE, error |-> "none", hasId |-> FALSE, threw |-> FALSE]

\* createBotPayload / createMessagePayload throw a TypeError when the format
\* makes them call message.split or text.replace on a non-string message
createBotPayloadThrows(m, format) == format = "embed" /\ m.type # "string"
createMessagePayloadThrows(m, format) ==
  format \in {"markdown", "embed"} /\ m.type # "string"

\* what the awaited fetch and the reading of its body can do:
\*   reject       fetch rejects (network failure)
\*   ok           response.ok, body parses and has the expected shape
\*   ok_noid      response.ok, body parses but lacks the identifier
\*   ok_badbody   response.ok, response.json() rejects
\*   fail         !response.ok, the error body is read
\*   fail_badbody !response.ok, reading the error body rejects
FetchOutcomes == {"reject", "ok", "ok_noid", "ok_badbody", "fail", "fail_badbody"}

beforeFetchNoTokenTest(platformName, token, channelId, m, format) ==
  LET name == IF platformName = S_discord THEN "Discord" ELSE "Telegram"
      api == IF platformName = S_discord THEN "Bot API error"
             ELSE "Telegram API error"
      throws == IF platformName = S_discord
                  THEN createBotPayloadThrows(m, format)
                  ELSE createMessagePayloadThrows(m, format)
  IN IF ~Truthy(channelId) THEN createErrorResult("Invalid " \o name \o " channel")
     ELSE IF throws THEN createErrorResult(api)
     ELSE NoResult

\* the part of sendMessage / sendBotMessage that runs before fetch is
\* awaited: result is the early return, or NoResult when the POST is issued
beforeFetch(platformName, token, channelId, m, format) ==
  LET name == IF platformName = S_discord THEN "Discord" ELSE "Telegram"
      api == IF platformName = S_discord THEN "Bot API error"
             ELSE "Telegram API error"
      throws == IF platformName = S_discord
                  THEN createBotPayloadThrows(m, format)
                  ELSE createMessagePayloadThrows(m, format)
  IN IF ~Truthy(token) THEN createErrorResult(name \o " bot token not configured")
     ELSE IF ~Truthy(channelId) THEN createErrorResult("Invalid " \o name \o " channel")
     ELSE IF throws THEN createErrorResult(api)
     ELSE NoResult

afterFetchUncaught(platformName, outcome) ==
  IF outcome = "ok" THEN createSuccessResult(TRUE)
  ELSE IF outcome = "ok_noid" /\ platformName = S_discord
    THEN createSuccessResult(FALSE)
  ELSE IF outcome = "fail" THEN createErrorResult("request failed")
  ELSE Thrown

\* the part of sendBotMessage that runs once fetch has settled
afterFetch(platformName, outcome) ==
  IF platformName = S_discord
    THEN CASE outcome = "ok" -> createSuccessResult(TRUE)
           [] outcome = "ok_noid" -> createSuccessResult(FALSE)
           [] outcome = "fail" -> createErrorResult("Bot API request failed")
           [] OTHER -> createErrorResult("Bot API error")
    ELSE CASE outcome = "ok" -> createSuccessResult(TRUE)
           [] outcome = "fail" -> createErrorResult("Telegram API request failed")
           [] OTHER -> createErrorResult("Telegram API error")


\* ---------------------------------------------------- configuration store

\* the paths the program looks at; "" stands for no path (undefined or
\* empty, both falsy)
P_home == "~/.notife/config.json"
P_cwd == "./config.json"
P_cwdDot == "./.notife.json"
P_homeDot == "~/.notife.json"
P_pushr == "~/.pushr/config.json"
P_example == "config.json.example"
P_custom == "/etc/custom.json"
P_other == "/etc/other.json"

Paths == {P_home, P_cwd, P_cwdDot, P_homeDot, P_pushr, P_example, P_custom, P_other}

\* defaultConfig of loadConfig
EmptyConfig ==
  [discord |-> NoPlatform, telegram |-> NoPlatform,
   defaults |-> [platform |-> Undefined, channel |-> Undefined]]

\* a file: whether it exists, whether JSON.parse and the merge get through
\* it, and the Config it holds when they do
MissingFile == [exists |-> FALSE, parses |-> FALSE, config |-> EmptyConfig]
\* what the text of a file that JSON.parse rejects appears to configure
TruncatedConfig ==
  [discord |-> BotlessPlatform, telegram |-> NoPlatform,
   defaults |-> [platform |-> Undefined, channel |-> Undefined]]

MalformedFile == [exists |-> TRUE, parses |-> FALSE, config |-> TruncatedConfig]
ValidFile(cfg) == [exists |-> TRUE, parses |-> TRUE, config |-> cfg]

existsSync(fsys, path) == path \in DOMAIN fsys /\ fsys[path].exists

\* possiblePaths of findConfigFile, in order, before filter(Boolean)
possiblePaths(envPath) == <<envPath, P_home, P_cwd, P_cwdDot, P_homeDot>>

findConfigFileLastWins(fsys, envPath) ==
  LET paths == SelectSeq(possiblePaths(envPath), LAMBDA q : q # "")
      found == {i \in 1..Len(paths) : existsSync(fsys, paths[i])}
  IN IF found = {} THEN P_home
     ELSE paths[CHOOSE i \in found : \A j \in found : j <= i]

\* ConfigManager.findConfigFile: the first existing candidate, else the
\* home-directory config path
findConfigFile(fsys, envPath) ==
  LET paths == SelectSeq(possiblePaths(envPath), LAMBDA q : q # "")
      found == {i \in 1..Len(paths) : existsSync(fsys, paths[i])}
  IN IF found = {} THEN P_home
     ELSE paths[CHOOSE i \in found : \A j \in found : i <= j]

\* ConfigManager constructor: configPath || this.findConfigFile()
resolveConfigPath(fsys, argPath, envPath) ==
  IF argPath # "" THEN argPath ELSE findConfigFile(fsys, envPath)

loadConfigKeepsPartial(fsys, path) ==
  IF ~existsSync(fsys, path)
    THEN [config |-> EmptyConfig, diagnostic |-> "warn-not-found", threw |-> FALSE]
  ELSE IF ~fsys[path].parses
    THEN [config |-> fsys[path].config, diagnostic |-> "none", threw |-> TRUE]
  ELSE [config |-> fsys[path].config, diagnostic |-> "none", threw |-> FALSE]

\* ConfigManager.loadConfig: the Config, and the diagnostic written on the
\* way (console.warn for a missing file, console.error for one that cannot
\* be read or parsed); threw marks an exception leaving the method
loadConfig(fsys, path) ==
  IF ~existsSync(fsys, path)
    THEN [config |-> EmptyConfig, diagnostic |-> "warn-not-found", threw |-> FALSE]
  ELSE IF ~fsys[path].parses
    THEN [config |-> EmptyConfig, diagnostic |-> "error-parse", threw |-> FALSE]
  ELSE [config |-> fsys[path].config, diagnostic |-> "none", threw |-> FALSE]

\* ConfigSetup.hasConfig: existsSync(CONFIG_FILE)
hasConfig(fsys) == existsSync(fsys, P_pushr)


\* ------------------------------------------------------------------ state

VARIABLES
  args,       \* SendCommandArgs of the invocation
  config,     \* ConfigManager.config, the loaded Config
  env,        \* process.env: the two token variables
  pc,         \* position of handleSendCommand
  platforms,  \* the platforms array of handleSendCommand
  idx,        \* position of the for loop in platforms
  target,     \* sendToPlatform's target while a send is under way
  result,     \* the MessageResult sendMessage returned
  results,    \* every MessageResult returned, in order, with its fetch outcome
  http,       \* the HTTP requests issued, in order
  console,    \* what was written to console.log / console.error, in order
  exitCode,   \* argument of process.exit, -1 while it was not called
  attempted,  \* platform names sendToPlatform was called with, in order
  call,       \* a ConfigManager getter called on its own: name and argument
  ret,        \* what that getter returned
  fs,         \* the files the program looks at
  override,   \* args.config and process.env.NOTIFE_CONFIG_PATH
  configPath, \* ConfigManager.configPath
  run,        \* number of the current invocation of the program
  created     \* the paths initializeConfig wrote so far

storeVars == <<fs, override, configPath, run, created>>

vars == <<args, config, env, pc, platforms, idx, target, result, results,
          http, console, exitCode, attempted, call, ret, fs, override,
          configPath, run, created>>

NotExited == 0 - 1

Line(stream, kind, platform, tgt, message, text) ==
  [stream |-> stream, kind |-> kind, platform |-> platform, target |-> tgt,
   message |-> message, text |-> text]

ErrorLine(kind, platform, text) ==
  Line("error", kind, platform, Undefined, Undefined, text)

LogLine(kind, platform, text) ==
  Line("log", kind, platform, Undefined, Undefined, text)

\* ----------------------------------------------------- inputs of dispatch

D_id == Str(<<"1">>)
D_alias == Str(<<"a">>)
D_default == Str(<<"-", "1">>)
D_fileToken == Str(<<"a", "1">>)
D_envToken == Str(<<"1", "a">>)
D_message == Str(<<"a", "-">>)

D_channels == [k \in {D_alias} |-> Str(<<"1", "1">>)]

D_Platforms ==
  {NoPlatform, BotlessPlatform, BotPlatform(Undefined, FALSE, <<>>),
   BotPlatform(D_fileToken, TRUE, D_channels)}

D_Messages ==
  {[m |-> D_message, format |-> "plain"],
   [m |-> D_message, format |-> "embed"],
   [m |-> ArrayValue, format |-> "embed"],
   [m |-> ArrayValue, format |-> "markdown"]}

D_Args ==
  {[discord |-> d, telegram |-> t, channelID |-> id, channel |-> ch,
    m |-> mf.m, format |-> mf.format, dryRun |-> dry] :
     d \in BOOLEAN, t \in BOOLEAN,
     id \in {Undefined, Str(<<>>), D_id},
     ch \in {Undefined, D_alias},
     mf \in D_Messages, dry \in BOOLEAN}

D_Configs ==
  {[discord |-> d, telegram |-> t,
    defaults |-> [platform |-> dp, channel |-> dc]] :
     d \in D_Platforms, t \in D_Platforms,
     dp \in {Undefined, Str(<<>>), S_telegram, S_slack},
     dc \in {Undefined, D_default}}

D_Envs ==
  {[discordToken |-> dt, telegramToken |-> tt] :
     dt \in {Undefined, D_envToken}, tt \in {Undefined, D_envToken}}

NoCall == [fn |-> "none", arg |-> Undefined]

\* no file, no override, first invocation
NoFiles == [q \in Paths |-> MissingFile]
NoOverride == [arg |-> "", env |-> ""]


Init ==
  /\ args \in D_Args
  /\ config \in D_Configs
  /\ env \in D_Envs
  /\ pc = "start"
  /\ platforms = <<>>
  /\ idx = 1
  /\ target = Undefined
  /\ result = NoResult
  /\ results = <<>>
  /\ http = <<>>
  /\ console = <<>>
  /\ exitCode = NotExited
  /\ attempted = <<>>
  /\ call = NoCall
  /\ ret = Undefined
  /\ fs = NoFiles
  /\ override = NoOverride
  /\ configPath = ""
  /\ run = 1
  /\ created = {}


\* ---------------------------------------------------------------- actions

ValidationLines(errors) ==
  <<ErrorLine("validation-header", Undefined, "Configuration validation failed:")>>
    \o [i \in 1..Len(errors) |-> ErrorLine("validation", Undefined, errors[i])]

\* handleSendCommand up to the for loop: validation, process.exit(1) on
\* failure (or from the catch block when validateConfig throws), platform
\* selection
handleSendCommand ==
  /\ pc = "start"
  /\ LET v == validateConfig(config, env)
     IN IF v.threw
          THEN /\ console' = Append(console, ErrorLine("fatal", Undefined, "Error: TypeError"))
               /\ exitCode' = 1
               /\ pc' = "exited"
               /\ UNCHANGED platforms
        ELSE IF ~v.valid
          THEN /\ console' = console \o ValidationLines(v.errors)
               /\ exitCode' = 1
               /\ pc' = "exited"
               /\ UNCHANGED platforms
        ELSE /\ platforms' = selectPlatforms(args, config)
             /\ pc' = "loop"
             /\ UNCHANGED <<console, exitCode>>
  /\ UNCHANGED <<args, config, env, idx, target, result, results, http,
                 attempted, call, ret>>
  /\ UNCHANGED storeVars

isDryRunNever(a) == FALSE

\* sendToPlatform, "Dry run mode": args['dry-run']
isDryRun(a) == a.dryRun

\* sendToPlatform up to the call of platform.sendMessage: target selection,
\* the early returns and the dry-run preview
sendToPlatform ==
  /\ pc = "loop"
  /\ idx <= Len(platforms)
  /\ LET platformName == platforms[idx]
         tgt == selectTarget(platformName, args, config)
     IN /\ attempted' = Append(attempted, platformName)
        /\ IF platformName \notin {S_discord, S_telegram}
             THEN /\ console' = Append(console,
                        ErrorLine("unsupported", platformName, "Unsupported platform"))
                  /\ idx' = idx + 1
                  /\ UNCHANGED <<pc, target>>
           ELSE IF ~Truthy(tgt)
             THEN /\ console' = Append(console,
                        ErrorLine("no-target", platformName,
                                  "Telegram requires --channelID or --channel parameter"))
                  /\ idx' = idx + 1
                  /\ UNCHANGED <<pc, target>>
           ELSE IF isDryRun(args)
             THEN /\ console' = Append(console,
                        Line("log", "dry-run", platformName, tgt, args.m,
                             "[DRY RUN] Would send to"))
                  /\ idx' = idx + 1
                  /\ UNCHANGED <<pc, target>>
           ELSE /\ console' = Append(console,
                        LogLine("sending", platformName, "Sending message to"))
                /\ target' = tgt
                /\ pc' = "sendMessage"
                /\ UNCHANGED idx
  /\ UNCHANGED <<args, config, env, platforms, result, results, http,
                 exitCode, call, ret>>
  /\ UNCHANGED storeVars

Request(platformName, token, channelId) ==
  [method |-> "POST", platform |-> platformName, token |-> token,
   channelId |-> channelId]

\* sendMessage and sendBotMessage up to the awaited fetch: token, channel
\* resolution, payload, and the POST
sendMessage ==
  /\ pc = "sendMessage"
  /\ LET platformName == platforms[idx]
         token == IF platformName = S_discord
                    THEN getDiscordToken(config, env)
                    ELSE getTelegramToken(config, env)
         channelId == IF platformName = S_discord
                        THEN getDiscordChannel(config, target)
                        ELSE getTelegramChannel(config, target)
         early == beforeFetch(platformName, token, channelId, args.m, args.format)
     IN IF early = NoResult
          THEN /\ http' = Append(http, Request(platformName, token, channelId))
               /\ pc' = "fetch"
               /\ UNCHANGED <<result, results>>
          ELSE /\ result' = early
               /\ results' = Append(results,
                    [platform |-> platformName, result |-> early, outcome |-> "none"])
               /\ pc' = "report"
               /\ UNCHANGED http
  /\ UNCHANGED <<args, config, env, platforms, idx, target, console,
                 exitCode, attempted, call, ret>>
  /\ UNCHANGED storeVars

\* the fetch settles and sendBotMessage runs to its return
fetchSettles ==
  /\ pc = "fetch"
  /\ \E outcome \in FetchOutcomes :
       LET r == afterFetch(platforms[idx], outcome)
       IN /\ result' = r
          /\ results' = Append(results,
               [platform |-> platforms[idx], result |-> r, outcome |-> outcome])
  /\ pc' = "report"
  /\ UNCHANGED <<args, config, env, platforms, idx, target, http, console,
                 exitCode, attempted, call, ret>>
  /\ UNCHANGED storeVars

afterSendMessageRethrowing(platformName, r) ==
  IF r.success
    THEN [line |-> LogLine("sent", platformName, "Message sent successfully to"),
          propagates |-> FALSE]
    ELSE [line |-> ErrorLine("send-failed", platformName, r.error),
          propagates |-> TRUE]

\* sendToPlatform after the awaited sendMessage: the success / failure
\* report, or the catch block when it threw; the catch block swallows the
\* exception, so nothing propagates to handleSendCommand
afterSendMessage(platformName, r) ==
  IF r.threw
    THEN [line |-> ErrorLine("send-exception", platformName, "Error sending to"),
          propagates |-> FALSE]
  ELSE IF r.success
    THEN [line |-> LogLine("sent", platformName, "Message sent successfully to"),
          propagates |-> FALSE]
  ELSE [line |-> ErrorLine("send-failed", platformName, r.error),
        propagates |-> FALSE]

\* sendToPlatform after sendMessage settled, and the for loop moves on; an
\* exception leaving sendToPlatform would reach handleSendCommand's catch
\* block, which ends the process with code 1
reportResult ==
  /\ pc = "report"
  /\ LET o == afterSendMessage(platforms[idx], result)
     IN IF o.propagates
          THEN /\ console' = console \o
                    <<o.line, ErrorLine("fatal", Undefined, "Error: send")>>
               /\ exitCode' = 1
               /\ pc' = "exited"
               /\ UNCHANGED idx
          ELSE /\ console' = Append(console, o.line)
               /\ idx' = idx + 1
               /\ pc' = "loop"
               /\ UNCHANGED exitCode
  /\ target' = Undefined
  /\ result' = NoResult
  /\ UNCHANGED <<args, config, env, platforms, results, http, attempted,
                 call, ret>>
  /\ UNCHANGED storeVars

\* the for loop ends and handleSendCommand returns
finish ==
  /\ pc = "loop"
  /\ idx > Len(platforms)
  /\ pc' = "done"
  /\ UNCHANGED <<args, config, env, platforms, idx, target, result, results,
                 http, console, exitCode, attempted, call, ret>>
  /\ UNCHANGED storeVars

Next ==
  \/ handleSendCommand
  \/ sendToPlatform
  \/ sendMessage
  \/ fetchSettles
  \/ reportResult
  \/ finish

Spec == Init /\ [][Next]_vars


\* ------------------------------------- the ConfigManager getters on their own

G_Inputs == Strings \cup {S_constructor}
G_MapValues == {Str(<<>>), Str(<<"1">>), Str(<<"a">>)}
G_Mappings ==
  {<<>>} \cup {[k \in {key} |-> v] : key \in G_Inputs, v \in G_MapValues}
G_Tokens == {Undefined} \cup Strings

G_ChannelPlatforms ==
  {NoPlatform, BotlessPlatform, BotPlatform(D_fileToken, FALSE, <<>>)}
    \cup {BotPlatform(D_fileToken, TRUE, m) : m \in G_Mappings}
G_TokenPlatforms ==
  {NoPlatform, BotlessPlatform} \cup {BotPlatform(tok, FALSE, <<>>) : tok \in G_Tokens}

G_Config(p) ==
  [discord |-> p, telegram |-> p,
   defaults |-> [platform |-> Undefined, channel |-> Undefined]]

InitGetters ==
  /\ \/ /\ config \in {G_Config(p) : p \in G_ChannelPlatforms}
        /\ env = [discordToken |-> Undefined, telegramToken |-> Undefined]
        /\ call \in {[fn |-> "none", arg |-> a] : a \in G_Inputs}
     \/ /\ config \in {G_Config(p) : p \in G_TokenPlatforms}
        /\ env \in {[discordToken |-> e, telegramToken |-> e] : e \in G_Tokens}
        /\ call = NoCall
  /\ args = [discord |-> FALSE, telegram |-> FALSE, channelID |-> Undefined,
             channel |-> Undefined, m |-> D_message, format |-> "plain",
             dryRun |-> FALSE]
  /\ pc = "getter"
  /\ platforms = <<>>
  /\ idx = 1
  /\ target = Undefined
  /\ result = NoResult
  /\ results = <<>>
  /\ http = <<>>
  /\ console = <<>>
  /\ exitCode = NotExited
  /\ attempted = <<>>
  /\ ret = Undefined
  /\ fs = NoFiles
  /\ override = NoOverride
  /\ configPath = ""
  /\ run = 1
  /\ created = {}

Returns(fn, value) ==
  /\ pc = "getter"
  /\ call.fn = "none"
  /\ call' = [call EXCEPT !.fn = fn]
  /\ ret' = value
  /\ UNCHANGED <<args, config, env, pc, platforms, idx, target, result,
                 results, http, console, exitCode, attempted>>
  /\ UNCHANGED storeVars

callGetDiscordChannel ==
  /\ call.arg # Undefined
  /\ Returns("getDiscordChannel", getDiscordChannel(config, call.arg))

callGetTelegramChannel ==
  /\ call.arg # Undefined
  /\ Returns("getTelegramChannel", getTelegramChannel(config, call.arg))

callGetDiscordToken ==
  /\ call.arg = Undefined
  /\ Returns("getDiscordToken", getDiscordToken(config, env))

callGetTelegramToken ==
  /\ call.arg = Undefined
  /\ Returns("getTelegramToken", getTelegramToken(config, env))

NextGetters ==
  \/ callGetDiscordChannel
  \/ callGetTelegramChannel
  \/ callGetDiscordToken
  \/ callGetTelegramToken

SpecGetters == InitGetters /\ [][NextGetters]_vars


\* ------------------------------------- main, first-run setup, config loading

\* invocations of the program in a row
MaxRuns == 2

PathTag(q) ==
  CASE q = P_home -> "1" [] q = P_cwd -> "2" [] q = P_cwdDot -> "3"
    [] q = P_homeDot -> "4" [] q = P_pushr -> "5" [] q = P_example -> "6"
    [] q = P_custom -> "7" [] OTHER -> "8"

\* the Config a well-formed file at path q holds: a usable Discord bot, and
\* a default channel that tells the files apart
ConfigOf(q) ==
  [discord |-> BotPlatform(D_fileToken, FALSE, <<>>), telegram |-> NoPlatform,
   defaults |-> [platform |-> Undefined, channel |-> Str(<<PathTag(q)>>)]]

M_Files(q) ==
  IF q \in {P_home, P_custom}
    THEN {MissingFile, MalformedFile, ValidFile(ConfigOf(q))}
    ELSE {MissingFile, ValidFile(ConfigOf(q))}

M_FileSystems ==
  {[q \in Paths |->
      CASE q = P_home -> f1 [] q = P_cwd -> f2 [] q = P_cwdDot -> f3
        [] q = P_homeDot -> f4 [] q = P_pushr -> f5 [] q = P_example -> f6
        [] q = P_custom -> f7 [] OTHER -> f8] :
     f1 \in M_Files(P_home), f2 \in M_Files(P_cwd), f3 \in M_Files(P_cwdDot),
     f4 \in M_Files(P_homeDot), f5 \in M_Files(P_pushr),
     f6 \in M_Files(P_example), f7 \in M_Files(P_custom),
     f8 \in M_Files(P_other)}

M_Overrides ==
  {[arg |-> a, env |-> e] : a \in {"", P_custom}, e \in {"", P_custom, P_other}}

M_Args ==
  [discord |-> TRUE, telegram |-> FALSE, channelID |-> Undefined,
   channel |-> Undefined, m |-> D_message, format |-> "plain", dryRun |-> FALSE]

InitMain ==
  /\ fs \in M_FileSystems
  /\ override \in M_Overrides
  /\ args = M_Args
  /\ env = [discordToken |-> Undefined, telegramToken |-> Undefined]
  /\ config = EmptyConfig
  /\ configPath = ""
  /\ run = 1
  /\ created = {}
  /\ pc = "main"
  /\ platforms = <<>>
  /\ idx = 1
  /\ target = Undefined
  /\ result = NoResult
  /\ results = <<>>
  /\ http = <<>>
  /\ console = <<>>
  /\ exitCode = NotExited
  /\ attempted = <<>>
  /\ call = NoCall
  /\ ret = Undefined

\* ConfigSetup.initializeConfig: copies the example to CONFIG_FILE, or
\* throws when no example is found
initializeConfig(fsys) ==
  IF existsSync(fsys, P_example)
    THEN [threw |-> FALSE, fs |-> [fsys EXCEPT ![P_pushr] = fsys[P_example]]]
    ELSE [threw |-> TRUE, fs |-> fsys]

\* main: the first-run test; the initializer and process.exit(0), or the
\* catch block and process.exit(1) when it throws; otherwise on to the
\* parse of the command line, which runs handleSendCommand
main ==
  /\ pc = "main"
  /\ IF ~hasConfig(fs)
       THEN LET i == initializeConfig(fs)
            IN /\ fs' = i.fs
               /\ pc' = "exited"
               /\ IF i.threw
                    THEN /\ console' = console \o
                              <<LogLine("welcome", Undefined, "Welcome to notife!"),
                                ErrorLine("fatal", Undefined,
                                          "Error: Failed to initialize configuration")>>
                         /\ exitCode' = 1
                         /\ UNCHANGED created
                    ELSE /\ console' = console \o
                              <<LogLine("welcome", Undefined, "Welcome to notife!"),
                                LogLine("config-created", Undefined,
                                        "Configuration file created at"),
                                LogLine("config-help", Undefined,
                                        "Configuration Setup Required")>>
                         /\ exitCode' = 0
                         /\ created' = created \cup {P_pushr}
       ELSE /\ pc' = "construct"
            /\ UNCHANGED <<fs, console, exitCode, created>>
  /\ UNCHANGED <<args, config, env, platforms, idx, target, result, results,
                 http, attempted, call, ret, override, configPath, run>>

DiagnosticLines(l, path) ==
  IF l.diagnostic = "warn-not-found"
    THEN <<Line("warn", "config-not-found", Undefined, Undefined, Undefined, path)>>
  ELSE IF l.diagnostic = "error-parse"
    THEN <<Line("error", "config-parse-error", Undefined, Undefined, Undefined, path)>>
  ELSE <<>>

\* handleSendCommand, new ConfigManager(args.config): the constructor sets
\* configPath and loads the Config; an exception out of it would reach
\* handleSendCommand's catch block
newConfigManager ==
  /\ pc = "construct"
  /\ LET path == resolveConfigPath(fs, override.arg, override.env)
         l == loadConfig(fs, path)
     IN /\ configPath' = path
        /\ config' = l.config
        /\ IF l.threw
             THEN /\ console' = Append(console,
                        ErrorLine("fatal", Undefined, "Error: config"))
                  /\ exitCode' = 1
                  /\ pc' = "exited"
             ELSE /\ console' = console \o DiagnosticLines(l, path)
                  /\ pc' = "start"
                  /\ UNCHANGED exitCode
  /\ UNCHANGED <<args, env, platforms, idx, target, result, results, http,
                 attempted, call, ret, fs, override, run, created>>

\* the process has ended and the program is started again, on the same
\* files with the same overrides
nextRun ==
  /\ pc \in {"done", "exited"}
  /\ run < MaxRuns
  /\ run' = run + 1
  /\ pc' = "main"
  /\ config' = EmptyConfig
  /\ configPath' = ""
  /\ platforms' = <<>>
  /\ idx' = 1
  /\ target' = Undefined
  /\ result' = NoResult
  /\ results' = <<>>
  /\ http' = <<>>
  /\ console' = <<>>
  /\ exitCode' = NotExited
  /\ attempted' = <<>>
  /\ UNCHANGED <<args, env, call, ret, fs, override, created>>

NextMain ==
  \/ main
  \/ newConfigManager
  \/ handleSendCommand
  \/ sendToPlatform
  \/ sendMessage
  \/ fetchSettles
  \/ reportResult
  \/ finish
  \/ nextRun

SpecMain == InitMain /\ [][NextMain]_vars

\* --------------------------------------------------------- message payloads

\* String.prototype.split with a one-character separator
RECURSIVE SplitFrom(_, _, _)
SplitFrom(s, sep, cur) ==
  IF s = <<>> THEN <<cur>>
  ELSE IF Head(s) = sep THEN <<cur>> \o SplitFrom(Tail(s), sep, <<>>)
  ELSE SplitFrom(Tail(s), sep, Append(cur, Head(s)))

split(s, sep) == SplitFrom(s, sep, <<>>)

\* parts[i] of a JavaScript array (i counted from 0): undefined past the end
Part(parts, i) == IF i + 1 <= Len(parts) THEN Str(parts[i + 1]) ELSE Undefined

\* text.replace(new RegExp('\\' + char, 'g'), '\\' + char)
RECURSIVE replaceGlobal(_, _)
replaceGlobal(s, char) ==
  IF s = <<>> THEN <<>>
  ELSE IF Head(s) = char THEN <<"\\", char>> \o replaceGlobal(Tail(s), char)
  ELSE <<Head(s)>> \o replaceGlobal(Tail(s), char)

\* text.replace(char, ''): the first occurrence only
RECURSIVE replaceFirst(_, _)
replaceFirst(s, char) ==
  IF s = <<>> THEN <<>>
  ELSE IF Head(s) = char THEN Tail(s)
  ELSE <<Head(s)>> \o replaceFirst(Tail(s), char)

\* the grave accent, as a character of its own
GraveAccent == "grave"

specialChars ==
  <<"_", "*", "[", "]", "(", ")", "~", GraveAccent, ">", "#", "+", "-", "=", "|",
    "{", "}", ".", "!">>

RECURSIVE EscapeLoop(_, _, _)
EscapeLoop(escaped, chars, i) ==
  IF i > Len(chars) THEN escaped
  ELSE EscapeLoop(replaceGlobal(escaped, chars[i]), chars, i + 1)

escapeMarkdownV2BackslashToo(text) == EscapeLoop(text, specialChars \o <<"\\">>, 1)

\* TelegramPlatform.escapeMarkdownV2: one global replace per special
\* character, each on the result of the one before
escapeMarkdownV2(text) == EscapeLoop(text, specialChars, 1)

S_Notification ==
  Str(<<"N", "o", "t", "i", "f", "i", "c", "a", "t", "i", "o", "n">>)

\* TelegramPlatform.formatAsEmbed, for options without fields
formatAsEmbed(message, options) ==
  LET parts == split(message, "|")
      title == Or(Part(parts, 0), Or(options.title, S_Notification))
      description == Or(Part(parts, 1), Str(message))
  IN <<"*">> \o escapeMarkdownV2(title.chars) \o <<"*", "\n", "\n">>
       \o escapeMarkdownV2(description.chars)

\* TelegramPlatform.createMessagePayload, for a message that is a string
createMessagePayload(message, options) ==
  IF options.format = "markdown"
    THEN [text |-> escapeMarkdownV2(message), parse_mode |-> "MarkdownV2"]
  ELSE IF options.format = "embed"
    THEN [text |-> formatAsEmbed(message, options), parse_mode |-> "MarkdownV2"]
  ELSE [text |-> message, parse_mode |-> "none"]

HexDigits ==
  <<"0", "1", "2", "3", "4", "5", "6", "7", "8", "9", "a", "b", "c", "d", "e", "f">>
HexDigitsUpper ==
  <<"0", "1", "2", "3", "4", "5", "6", "7", "8", "9", "A", "B", "C", "D", "E", "F">>

IsHexDigit(c) == \E i \in 1..16 : c = HexDigits[i] \/ c = HexDigitsUpper[i]
HexDigitValue(c) ==
  (CHOOSE i \in 1..16 : c = HexDigits[i] \/ c = HexDigitsUpper[i]) - 1

NaN == [nan |-> TRUE, value |-> 0]
Number(n) == [nan |-> FALSE, value |-> n]

RECURSIVE HexPrefix(_, _, _)
HexPrefix(s, acc, seen) ==
  IF s # <<>> /\ IsHexDigit(Head(s))
    THEN HexPrefix(Tail(s), acc * 16 + HexDigitValue(Head(s)), TRUE)
  ELSE IF seen THEN Number(acc) ELSE NaN

RECURSIVE TrimStart(_)
TrimStart(s) == IF s # <<>> /\ Head(s) = " " THEN TrimStart(Tail(s)) ELSE s

\* parseInt(s, 16): leading white space, a sign, an optional 0x, then the
\* longest run of hexadecimal digits; NaN when that run is empty
parseInt16(s) ==
  LET t == TrimStart(s)
      negative == t # <<>> /\ Head(t) = "-"
      u == IF t # <<>> /\ Head(t) \in {"+", "-"} THEN Tail(t) ELSE t
      v == IF Len(u) >= 2 /\ u[1] = "0" /\ u[2] \in {"x", "X"}
             THEN Tail(Tail(u)) ELSE u
      n == HexPrefix(v, 0, FALSE)
  IN IF n.nan THEN NaN ELSE IF negative THEN Number(0 - n.value) ELSE n

NoColor == [set |-> FALSE, nan |-> FALSE, value |-> 0]
Color(n) == [set |-> TRUE, nan |-> n.nan, value |-> n.value]

embedColorOptionFirst(parts, options) ==
  IF Truthy(options.color)
    THEN Color(parseInt16(replaceFirst(options.color.chars, "#")))
  ELSE IF Truthy(Part(parts, 2))
    THEN Color(parseInt16(replaceFirst(Part(parts, 2).chars, "#")))
  ELSE NoColor

\* DiscordPlatform.createBotPayload, the color of the embed
embedColor(parts, options) ==
  IF Truthy(Part(parts, 2))
    THEN Color(parseInt16(replaceFirst(Part(parts, 2).chars, "#")))
  ELSE IF Truthy(options.color)
    THEN Color(parseInt16(replaceFirst(options.color.chars, "#")))
  ELSE NoColor

embedDescriptionSecondPartOnly(message, parts) ==
  IF Part(parts, 1) = Undefined THEN <<>> ELSE Part(parts, 1).chars

\* the description of an embed on either platform: parts[1] || message
embedDescription(message, parts) == Or(Part(parts, 1), Str(message)).chars

\* DiscordPlatform.createBotPayload, for a message that is a string and
\* options without fields; the timestamp comes from the clock and is left out
createBotPayload(message, options) ==
  IF options.format = "embed"
    THEN LET parts == split(message, "|")
         IN [embeds |-> <<[title |-> Or(Part(parts, 0), S_Notification).chars,
                           description |-> embedDescription(message, parts),
                           color |-> embedColor(parts, options)]>>,
             content |-> Undefined]
    ELSE [embeds |-> <<>>, content |-> Str(message)]

\* length of the enumerated messages
F_MaxLen == 5

F_Alphabet == {"|", "#", "f", "\\"}

F_Examples ==
  {specialChars \o <<"\\", "f">>,
   <<"T", "|", "D", "|", "#", "f", "f", "0", "0", "0", "0">>,
   <<"T", "|", "D", "|", "F", "f", "0", "0", "0", "0">>,
   <<"T", "|", "D", "|", "0", "x", "1", "f">>,
   <<"_", "*", "|", "|", "#", "1", "0">>}

F_Messages == UNION {[1..k -> F_Alphabet] : k \in 0..F_MaxLen} \cup F_Examples

F_Options ==
  {[format |-> f, color |-> c, title |-> ti] :
     f \in {"plain", "markdown", "embed"},
     c \in {Undefined, Str(<<"#", "0", "f">>)},
     ti \in {Undefined, Str(<<"t", "_">>)}}

InitFormat ==
  /\ call \in {[fn |-> "none", arg |-> [message |-> m, options |-> o]] :
                 m \in F_Messages, o \in F_Options}
  /\ ret = Undefined
  /\ pc = "format"
  /\ args = [discord |-> FALSE, telegram |-> FALSE, channelID |-> Undefined,
             channel |-> Undefined, m |-> D_message, format |-> "plain",
             dryRun |-> FALSE]
  /\ config = EmptyConfig
  /\ env = [discordToken |-> Undefined, telegramToken |-> Undefined]
  /\ platforms = <<>>
  /\ idx = 1
  /\ target = Undefined
  /\ result = NoResult
  /\ results = <<>>
  /\ http = <<>>
  /\ console = <<>>
  /\ exitCode = NotExited
  /\ attempted = <<>>
  /\ fs = NoFiles
  /\ override = NoOverride
  /\ configPath = ""
  /\ run = 1
  /\ created = {}

Built(fn, payload) ==
  /\ pc = "format"
  /\ call.fn = "none"
  /\ call' = [call EXCEPT !.fn = fn]
  /\ ret' = payload
  /\ UNCHANGED <<args, config, env, pc, platforms, idx, target, result,
                 results, http, console, exitCode, attempted>>
  /\ UNCHANGED storeVars

\* TelegramPlatform.sendBotMessage builds its payload
callCreateMessagePayload ==
  Built("createMessagePayload",
        createMessagePayload(call.arg.message, call.arg.options))

\* DiscordPlatform.sendBotMessage builds its payload
callCreateBotPayload ==
  Built("createBotPayload", createBotPayload(call.arg.message, call.arg.options))

NextFormat ==
  \/ callCreateMessagePayload
  \/ callCreateBotPayload

SpecFormat == InitFormat /\ [][NextFormat]_vars

\* ----------------------------------------------------------------- claims

Range(s) == {s[i] : i \in 1..Len(s)}

RequestsTo(platformName) == {r \in Range(http) : r.platform = platformName}

ConsoleLines(kind, platformName) ==
  {l \in Range(console) : l.kind = kind /\ l.platform = platformName}

\* C1: with the dry-run flag set no HTTP request is ever issued, whatever
\* the platform flags, channel flags, format and configuration are.
C1_DryRunIssuesNoRequest == args.dryRun => http = <<>>

\* a dry run over both platforms that ran to its end with two previews
C1_Witness ==
  /\ args.dryRun
  /\ pc = "done"
  /\ ConsoleLines("dry-run", S_discord) # {}
  /\ ConsoleLines("dry-run", S_telegram) # {}
  /\ http = <<>>

C2_NoChannelSource ==
  /\ args.discord
  /\ args.telegram
  /\ ~Truthy(args.channelID)
  /\ ~Truthy(args.channel)
  /\ ~Truthy(config.defaults.channel)

\* the Discord dispatch was attempted: sendToPlatform ran for it and went
\* on to a preview or to sendMessage
DiscordDispatched ==
  /\ S_discord \in Range(attempted)
  /\ \/ ConsoleLines("dry-run", S_discord) # {}
     \/ ConsoleLines("sending", S_discord) # {}

\* C2: with both platform flags and no --channelID, no --channel and no
\* defaults.channel, Telegram is reported as an error and skipped (no
\* Telegram request), the Discord dispatch is still attempted, and the run
\* is not aborted.
C2_TelegramSkippedDiscordAttempted ==
  C2_NoChannelSource =>
    /\ RequestsTo(S_telegram) = {}
    /\ S_telegram \in Range(attempted) =>
         /\ ConsoleLines("no-target", S_telegram) # {}
         /\ DiscordDispatched
    /\ pc = "exited" => attempted = <<>>
    /\ pc = "done" =>
         /\ attempted = <<S_discord, S_telegram>>
         /\ exitCode = NotExited

\* Discord's POST went out, then Telegram was skipped, and the run ended
C2_Witness ==
  /\ C2_NoChannelSource
  /\ pc = "done"
  /\ RequestsTo(S_discord) # {}
  /\ ConsoleLines("no-target", S_telegram) # {}
  /\ Truthy(getTelegramToken(config, env))

\* C3: a token getter returns the environment value whenever the
\* platform's token variable is set and non-empty, whatever the file holds,
\* and the file's token only when the variable is unset or empty.
C3_EnvTokenOverridesFile ==
  /\ call.fn = "getDiscordToken" =>
       IF env.discordToken.type = "string" /\ env.discordToken.chars # <<>>
         THEN ret = env.discordToken
         ELSE ret = (IF config.discord.present /\ config.discord.hasBot
                       THEN config.discord.token ELSE Undefined)
  /\ call.fn = "getTelegramToken" =>
       IF env.telegramToken.type = "string" /\ env.telegramToken.chars # <<>>
         THEN ret = env.telegramToken
         ELSE ret = (IF config.telegram.present /\ config.telegram.hasBot
                       THEN config.telegram.token ELSE Undefined)

\* both the variable and the file hold a token, they differ, and the
\* getter returned the variable's
C3_Witness ==
  /\ call.fn = "getTelegramToken"
  /\ Truthy(env.telegramToken)
  /\ Truthy(config.telegram.token)
  /\ env.telegramToken # config.telegram.token
  /\ ret = env.telegramToken


\* the validation errors that apply to a configuration: no platform, a
\* configured platform without a bot block, a configured platform whose
\* bot block has no token while the environment has none either
ApplicableErrors(cfg, e) ==
  (IF ~cfg.discord.present /\ ~cfg.telegram.present THEN {ErrNoPlatforms} ELSE {})
    \cup (IF cfg.discord.present /\ ~cfg.discord.hasBot THEN {ErrDiscordNoBot} ELSE {})
    \cup (IF cfg.telegram.present /\ ~cfg.telegram.hasBot THEN {ErrTelegramNoBot} ELSE {})
    \cup (IF cfg.discord.present /\ cfg.discord.hasBot
                /\ ~Truthy(cfg.discord.token) /\ ~Truthy(e.discordToken)
            THEN {ErrDiscordNoToken} ELSE {})
    \cup (IF cfg.telegram.present /\ cfg.telegram.hasBot
                /\ ~Truthy(cfg.telegram.token) /\ ~Truthy(e.telegramToken)
            THEN {ErrTelegramNoToken} ELSE {})

ReportedValidationErrors ==
  {l.text : l \in {x \in Range(console) : x.kind = "validation"}}

\* C4: whenever validation fails the run aborts before any HTTP request,
\* and every validation error that applies to the configuration is
\* reported in that abort.
C4_ValidationAbortReportsAllErrors ==
  LET applicable == ApplicableErrors(config, env)
  IN /\ applicable # {} => (pc \in {"start", "exited"} /\ http = <<>>)
     /\ (applicable # {} /\ pc = "exited") =>
          applicable \subseteq ReportedValidationErrors

\* the first half of C4 alone: a failed validation ends the run, with exit
\* code 1, before sendToPlatform runs or a request is issued
C4_ValidationAbortsBeforeNetwork ==
  ApplicableErrors(config, env) # {} =>
    /\ pc \in {"start", "exited"}
    /\ http = <<>> /\ attempted = <<>>
    /\ pc = "exited" => exitCode = 1

\* C5: an input that matches the platform's identifier pattern is returned
\* unchanged, whatever the channels mapping holds.
C5_IdentifierPassesThrough ==
  /\ (call.fn = "getDiscordChannel" /\ IsDiscordId(call.arg)) => ret = call.arg
  /\ (call.fn = "getTelegramChannel" /\ IsTelegramId(call.arg)) => ret = call.arg

\* a negative Telegram identifier that is also an alias key of the mapping,
\* mapped to something else, came back unchanged
C5_Witness ==
  /\ call.fn = "getTelegramChannel"
  /\ IsTelegramId(call.arg)
  /\ ~IsDiscordId(call.arg)
  /\ config.telegram.hasChannels
  /\ call.arg \in DOMAIN config.telegram.channels
  /\ config.telegram.channels[call.arg] # call.arg
  /\ ret = call.arg

C6_Resolved(p, isId) ==
  IF p.present /\ p.hasBot /\ p.hasChannels /\ call.arg \in DOMAIN p.channels
    THEN ~isId => ret = p.channels[call.arg]
    ELSE ret = call.arg

\* C6: a non-numeric input that is a key of the channels mapping resolves
\* to the value mapped to it; an input that is no key of the mapping comes
\* back unchanged.
C6_AliasResolvesElseUnchanged ==
  /\ call.fn = "getDiscordChannel" =>
       C6_Resolved(config.discord, IsDiscordId(call.arg))
  /\ call.fn = "getTelegramChannel" =>
       C6_Resolved(config.telegram, IsTelegramId(call.arg))


\* the platform set the selection rule gives
C7_Expected ==
  IF args.discord \/ args.telegram
    THEN (IF args.discord THEN {S_discord} ELSE {})
           \cup (IF args.telegram THEN {S_telegram} ELSE {})
  ELSE IF config.defaults.platform.type = "string"
            /\ config.defaults.platform.chars # <<>>
    THEN {config.defaults.platform}
  ELSE {S_discord}

\* C7: the platforms attempted are exactly the flagged ones when a flag is
\* set (both when both are), otherwise the one configured defaults.platform
\* when it is set (to a non-empty name), otherwise 'discord' alone.
C7_PlatformSet ==
  /\ Range(attempted) \subseteq C7_Expected
  /\ pc = "done" =>
       /\ Range(attempted) = C7_Expected
       /\ Len(attempted) = Cardinality(C7_Expected)

\* both flags set, a different default platform configured, and exactly the
\* two flagged platforms were attempted
C7_Witness ==
  /\ pc = "done"
  /\ args.discord /\ args.telegram
  /\ config.defaults.platform = S_slack
  /\ attempted = <<S_discord, S_telegram>>

C8_Present(v) == v.type = "string" /\ v.chars # <<>>

\* the target the precedence rule gives a platform; Undefined when the rule
\* gives none
C8_Expected(platformName) ==
  IF C8_Present(args.channelID) THEN args.channelID
  ELSE IF C8_Present(args.channel) THEN args.channel
  ELSE IF C8_Present(config.defaults.channel) THEN config.defaults.channel
  ELSE IF platformName = S_discord THEN S_general
  ELSE Undefined

\* C8: each selected platform's channel target is the --channelID value if
\* given, else the --channel alias if given, else defaults.channel, else
\* 'general' for Discord only; a lower source is never used while a higher
\* one is present (given means given with a non-empty value).
C8_TargetPrecedence ==
  /\ pc \in {"sendMessage", "fetch", "report"} =>
       target = C8_Expected(platforms[idx])
  /\ \A l \in Range(console) :
       /\ l.kind = "dry-run" => l.target = C8_Expected(l.platform)
       /\ l.kind = "no-target" =>
            (l.platform = S_telegram /\ C8_Expected(l.platform) = Undefined)
  /\ \A i \in 1..Len(http) :
       LET p == http[i].platform
           c == C8_Expected(p)
       IN http[i].channelId =
            (IF p = S_discord THEN getDiscordChannel(config, c)
                              ELSE getTelegramChannel(config, c))

\* all three sources are present and differ, and the send under way for
\* Telegram targets the --channelID value
C8_Witness ==
  /\ pc = "fetch"
  /\ platforms[idx] = S_telegram
  /\ Truthy(args.channelID) /\ Truthy(args.channel)
  /\ Truthy(config.defaults.channel)
  /\ args.channelID # args.channel
  /\ target = args.channelID

\* C9: with several platforms selected, a failed dispatch of one (no
\* channel, no token, a non-ok response, an exception) never keeps the next
\* one from being attempted.
C9_FailureDoesNotStopNext ==
  /\ pc = "exited" => attempted = <<>>
  /\ pc = "done" => attempted = platforms
  /\ (pc = "loop" /\ idx <= Len(platforms)) => ENABLED sendToPlatform
  /\ pc = "report" => ENABLED reportResult

\* Discord's fetch rejected, and Telegram was attempted after it
C9_Witness ==
  /\ Len(results) >= 1
  /\ results[1].platform = S_discord
  /\ results[1].outcome = "reject"
  /\ ~results[1].result.success
  /\ attempted = <<S_discord, S_telegram>>
  /\ pc = "fetch"

\* C10: sendMessage always completes with a result and lets no exception
\* escape: whatever throws on the way gives success=false with an error
\* text, and success=true is returned only after an ok response.
C10_SendMessageAlwaysReturnsResult ==
  /\ \A i \in 1..Len(results) :
       LET r == results[i].result
       IN /\ ~r.threw
          /\ r.success => results[i].outcome \in {"ok", "ok_noid"}
          /\ ~r.success => r.error \notin {"", "none"}
  /\ pc = "report" => (result # NoResult /\ ~result.threw)
  /\ \A l \in Range(console) : l.kind # "send-exception"
  /\ pc \in {"sendMessage", "fetch"} => ENABLED (sendMessage \/ fetchSettles)

\* Discord's non-ok response had a body that could not be read, Telegram's
\* payload could not be built from a non-string message: both came back as
\* failure results
C10_Witness ==
  /\ Len(results) = 2
  /\ results[1].platform = S_discord
  /\ results[1].outcome = "fail_badbody"
  /\ ~results[1].result.success
  /\ results[2].platform = S_telegram
  /\ results[2].outcome = "none"
  /\ results[2].result.error = "Telegram API error"


\* the ConfigManager of this run has been constructed and nothing of the
\* send command has run yet
Constructed == pc = "start"

FirstExisting(paths) ==
  LET found == {i \in 1..Len(paths) : paths[i] # "" /\ existsSync(fs, paths[i])}
  IN IF found = {} THEN "" ELSE paths[CHOOSE i \in found : \A j \in found : i <= j]

LoadedFrom(path) ==
  /\ configPath = path
  /\ fs[path].parses => config = fs[path].config

C11_ExpectedPath ==
  IF override.arg # "" THEN override.arg
  ELSE IF override.env # "" /\ existsSync(fs, override.env) THEN override.env
  ELSE IF existsSync(fs, P_home) THEN P_home
  ELSE IF existsSync(fs, P_cwd) THEN P_cwd
  ELSE IF existsSync(fs, P_cwdDot) THEN P_cwdDot
  ELSE IF existsSync(fs, P_homeDot) THEN P_homeDot
  ELSE P_home

C12_MalformedFileYieldsDefault ==
  [][(/\ pc = "construct"
      /\ existsSync(fs, C11_ExpectedPath)
      /\ ~fs[C11_ExpectedPath].parses)
     => /\ pc' = "start"
        /\ exitCode' = NotExited
        /\ config' = EmptyConfig
        /\ console' = Append(console,
             Line("error", "config-parse-error", Undefined, Undefined,
                  Undefined, configPath'))]_vars

C12_Witness ==
  /\ Constructed
  /\ fs[configPath] = MalformedFile
  /\ config = EmptyConfig
  /\ config # fs[configPath].config
  /\ \E l \in Range(console) : l.kind = "config-parse-error"

TelegramPayloadOf(format) ==
  /\ call.fn = "createMessagePayload"
  /\ call.arg.options.format = format

DiscordPayloadOf(format) ==
  /\ call.fn = "createBotPayload"
  /\ call.arg.options.format = format

C13_Reserved ==
  {"_", "*", "[", "]", "(", ")", "~", GraveAccent, ">", "#", "+", "-", "=",
   "|", "{", "}", ".", "!"}

RECURSIVE C13_Escaped(_)
C13_Escaped(s) ==
  IF s = <<>> THEN <<>>
  ELSE (IF Head(s) \in C13_Reserved THEN <<"\\", Head(s)>> ELSE <<Head(s)>>)
         \o C13_Escaped(Tail(s))

\* C13: the text of a Telegram payload built with format markdown is the
\* message with every reserved character preceded by exactly one backslash
\* and every other character, the backslash included, left as it is.
C13_MarkdownEscapedOnce ==
  TelegramPayloadOf("markdown") =>
    /\ ret.text = C13_Escaped(call.arg.message)
    /\ ret.parse_mode = "MarkdownV2"

C13_Witness ==
  /\ TelegramPayloadOf("markdown")
  /\ call.arg.message = <<"#", "\\", "|", "f", "#">>
  /\ ret.text = <<"\\", "#", "\\", "\\", "|", "f", "\\", "#">>

\* positions of the separator in the message of the call
Bars == {i \in 1..Len(call.arg.message) : call.arg.message[i] = "|"}
Bar(n) == CHOOSE i \in Bars : Cardinality({j \in Bars : j <= i}) = n
Between(a, b) == SubSeq(call.arg.message, a + 1, b - 1)

C14_T == Between(0, Bar(1))
C14_D == Between(Bar(1), Bar(2))
C14_C == Between(Bar(2), Len(call.arg.message) + 1)
C14_Digits == IF C14_C # <<>> /\ Head(C14_C) = "#" THEN Tail(C14_C) ELSE C14_C

RECURSIVE C14_Value(_)
C14_Value(s) ==
  IF s = <<>> THEN 0
  ELSE 16 * C14_Value(SubSeq(s, 1, Len(s) - 1)) + HexDigitValue(s[Len(s)])

\* the message is T|D|C with non-empty parts, C a hexadecimal numeral with
\* or without a leading '#'
C14_WellFormed ==
  /\ Cardinality(Bars) = 2
  /\ C14_T # <<>>
  /\ C14_D # <<>>
  /\ C14_Digits # <<>>
  /\ \A i \in 1..Len(C14_Digits) : IsHexDigit(C14_Digits[i])

\* C14: a Discord payload built with format embed from T|D|C has one embed
\* with title T, description D and the color C read as hexadecimal without
\* its leading '#', whatever options.color is.
C14_EmbedFromThreeParts ==
  (DiscordPayloadOf("embed") /\ C14_WellFormed) =>
    /\ Len(ret.embeds) = 1
    /\ ret.content = Undefined
    /\ ret.embeds[1].title = C14_T
    /\ ret.embeds[1].description = C14_D
    /\ ret.embeds[1].color = [set |-> TRUE, nan |-> FALSE,
                              value |-> C14_Value(C14_Digits)]

C14_Witness ==
  /\ DiscordPayloadOf("embed")
  /\ call.arg.message = <<"T", "|", "D", "|", "#", "f", "f", "0", "0", "0", "0">>
  /\ call.arg.options.color = Str(<<"#", "0", "f">>)
  /\ ret.embeds[1].title = <<"T">>
  /\ ret.embeds[1].description = <<"D">>
  /\ ret.embeds[1].color.value = 16711680

\* the text between the first separator and the next one (or the end) is
\* missing or empty
C15_NoDescriptionPart ==
  \/ Bars = {}
  \/ Cardinality(Bars) = 1 /\ Bar(1) = Len(call.arg.message)
  \/ Cardinality(Bars) >= 2 /\ Bar(2) = Bar(1) + 1

C15_FirstPart == IF Bars = {} THEN call.arg.message ELSE Between(0, Bar(1))

C15_Fallback(platformName) ==
  IF platformName = "telegram" /\ call.arg.options.title # Undefined
       /\ call.arg.options.title.chars # <<>>
    THEN call.arg.options.title.chars
    ELSE S_Notification.chars

C15_TelegramText(title, description) ==
  <<"*">> \o C13_Escaped(title) \o <<"*", "\n", "\n">> \o C13_Escaped(description)

\* C15 (as stated): with format embed, on either platform, a missing or
\* empty description part makes the description the whole message, and a
\* message with no separator is both the title and the description.
C15_NoSeparatorIsTitleAndDescription ==
  LET title(p) == IF Bars = {} \/ C15_FirstPart # <<>>
                    THEN C15_FirstPart ELSE C15_Fallback(p)
  IN /\ (DiscordPayloadOf("embed") /\ C15_NoDescriptionPart) =>
          /\ ret.embeds[1].description = call.arg.message
          /\ ret.embeds[1].title = title("discord")
     /\ (TelegramPayloadOf("embed") /\ C15_NoDescriptionPart) =>
          ret.text = C15_TelegramText(title("telegram"), call.arg.message)

\* C15 (amended): with format embed, on either platform, a missing or empty
\* description part makes the description the whole message; a non-empty
\* message with no separator is both the title and the description; the
\* empty message gets the fallback title.
C15_DescriptionFallsBackToMessage ==
  LET title(p) == IF C15_FirstPart # <<>> THEN C15_FirstPart ELSE C15_Fallback(p)
  IN /\ (DiscordPayloadOf("embed") /\ C15_NoDescriptionPart) =>
          /\ ret.embeds[1].description = call.arg.message
          /\ ret.embeds[1].title = title("discord")
     /\ (TelegramPayloadOf("embed") /\ C15_NoDescriptionPart) =>
          ret.text = C15_TelegramText(title("telegram"), call.arg.message)

C15_Witness ==
  /\ DiscordPayloadOf("embed")
  /\ call.arg.message = <<"f", "f", "#">>
  /\ ret.embeds[1].title = <<"f", "f", "#">>
  /\ ret.embeds[1].description = <<"f", "f", "#">>

C16_Preview(platformName) ==
  {l \in ConsoleLines("dry-run", platformName) :
     l.target = C8_Expected(platformName) /\ l.message = args.m}

\* C16 (as stated): a dry run that passed validation reports, for every
\* selected platform, a preview with the platform, the target the
\* precedence rule gives it, and the message.
C16_PreviewForEverySelected ==
  (pc = "done" /\ args.dryRun) =>
    \A i \in 1..Len(platforms) : C16_Preview(platforms[i]) # {}

C16_Previewed(platformName) ==
  /\ platformName \in {S_discord, S_telegram}
  /\ C8_Expected(platformName) # Undefined

\* C16 (amended): a dry run that passed validation reports such a preview
\* for every selected platform that is supported and has a target, and
\* none for the others (an unsupported default platform, Telegram with no
\* channel source).
C16_PreviewForEveryTargeted ==
  (pc = "done" /\ args.dryRun) =>
    \A i \in 1..Len(platforms) :
      IF C16_Previewed(platforms[i])
        THEN C16_Preview(platforms[i]) # {}
        ELSE ConsoleLines("dry-run", platforms[i]) = {}

\* both platforms are selected, the alias is the only channel source, and
\* both previews are on the console
C16_Witness ==
  /\ pc = "done"
  /\ args.dryRun
  /\ platforms = <<S_discord, S_telegram>>
  /\ ~C8_Present(args.channelID)
  /\ args.channel = D_alias
  /\ \E l \in ConsoleLines("dry-run", S_discord) : l.target = D_alias
  /\ \E l \in ConsoleLines("dry-run", S_telegram) :
       l.target = D_alias /\ l.message = args.m

\* C17: once validation has run, the process has exited with code 1 if the
\* configuration is invalid, and process.exit has not been called if it is
\* valid, whatever the platform sends did.
C17_ExitCodeFollowsValidation ==
  LET invalid == ApplicableErrors(config, env) # {}
  IN /\ (invalid /\ pc # "start") => (pc = "exited" /\ exitCode = 1)
     /\ ~invalid => (pc # "exited" /\ exitCode = NotExited)

\* Discord's send failed and Telegram's threw inside its sender, and the
\* command returned without process.exit
C17_Witness ==
  /\ pc = "done"
  /\ exitCode = NotExited
  /\ Len(results) = 2
  /\ ~results[1].result.success
  /\ ~results[2].result.success
  /\ results[1].outcome = "fail"
  /\ results[2].outcome = "ok_badbody"

C19_Settled == {i \in 1..Len(results) : results[i].outcome # "none"}

\* C19: at most one request is awaiting its response; Telegram's send
\* starts only once Discord's result is in; no platform is sent two POSTs.
C19_SequentialSingleAttempt ==
  /\ Len(http) - Cardinality(C19_Settled) = (IF pc = "fetch" THEN 1 ELSE 0)
  /\ \A i, j \in 1..Len(http) : http[i].platform = http[j].platform => i = j
  /\ \A i \in 1..Len(http) : http[i].method = "POST"
  /\ ((pc \in {"sendMessage", "fetch", "report"} /\ platforms[idx] = S_telegram
         /\ S_discord \in Range(platforms))
        => (Len(results) >= 1 /\ results[1].platform = S_discord
              /\ \E l \in Range(console) :
                   l.platform = S_discord /\ l.kind \in {"sent", "send-failed"}))

\* Discord's request has been answered and Telegram's is in flight
C19_Witness ==
  /\ pc = "fetch"
  /\ Len(http) = 2
  /\ http[1].platform = S_discord
  /\ http[2].platform = S_telegram
  /\ Len(results) = 1
  /\ results[1].outcome = "ok"

\* the first-run branch of main was taken in this run
InitializerRan == \E l \in Range(console) : l.kind = "welcome"

\* C18: the first-run initializer runs only when no configuration file is
\* found and no explicit path is given; with --config or the environment
\* variable naming an existing file the run goes on to the dispatch.
C18_InitializerOnlyWithoutAnyConfig ==
  /\ InitializerRan =>
       /\ override = NoOverride
       /\ \A q \in {P_home, P_cwd, P_cwdDot, P_homeDot} : ~existsSync(fs, q)
  /\ (\/ override.arg # "" /\ existsSync(fs, override.arg)
      \/ override.env # "" /\ existsSync(fs, override.env))
       => ~InitializerRan

\* C20: on a run after the one in which the initializer created the file,
\* with no --config and no environment variable, the Config is the content
\* of the created file.
C20_CreatedFileIsLoadedNextRun ==
  (run >= 2 /\ created # {} /\ override = NoOverride /\ Constructed) =>
    /\ configPath \in created
    /\ config = fs[configPath].config

\* the token a platform's sender gets: the environment's when it is a
\* non-empty string, else the file's bot token
C21_Token(platformName) ==
  LET e == IF platformName = S_discord THEN env.discordToken ELSE env.telegramToken
      c == IF platformName = S_discord THEN config.discord ELSE config.telegram
  IN IF C8_Present(e) THEN e
     ELSE IF c.present /\ c.hasBot THEN c.token
     ELSE Undefined

C21_HasToken(platformName) == C8_Present(C21_Token(platformName))

C21_Name(platformName) == IF platformName = S_discord THEN "Discord" ELSE "Telegram"

\* the platform's sendMessage was called in a run that has ended
C21_Sent(platformName) ==
  /\ pc = "done"
  /\ ~args.dryRun
  /\ platformName \in Range(platforms) \cap {S_discord, S_telegram}
  /\ C8_Expected(platformName) # Undefined

\* C21: every POST carries the platform's non-empty token to a non-empty
\* channel of a platform that has a channel target; a selected platform
\* without a token gets the failure result "bot token not configured" and
\* no request.
C21_PostOnlyWithTokenAndTarget ==
  /\ \A i \in 1..Len(http) :
       LET p == http[i].platform
       IN /\ C21_HasToken(p)
          /\ http[i].token = C21_Token(p)
          /\ C8_Present(C8_Expected(p))
          /\ Truthy(http[i].channelId)
  /\ \A p \in {S_discord, S_telegram} :
       (C21_Sent(p) /\ ~C21_HasToken(p)) =>
         /\ RequestsTo(p) = {}
         /\ \E i \in 1..Len(results) :
              /\ results[i].platform = p
              /\ results[i].outcome = "none"
              /\ ~results[i].result.success
              /\ results[i].result.error = C21_Name(p) \o " bot token not configured"

\* validation passed on Telegram's configuration alone; Discord, selected
\* by flag, has no token: its send failed without a request, and
\* Telegram's request went out
C21_Witness ==
  /\ pc = "done"
  /\ platforms = <<S_discord, S_telegram>>
  /\ ~config.discord.present
  /\ env.discordToken = Undefined
  /\ RequestsTo(S_discord) = {}
  /\ Len(results) = 2
  /\ results[1].platform = S_discord
  /\ results[1].result.error = "Discord bot token not configured"
  /\ RequestsTo(S_telegram) # {}


============================================================================
